---- MODULE Spec2Model ----
(***************************************************************************)
(* A model of src/main.ts: a single-process Consul-like KV service on      *)
(* Deno KV.  The process is single-threaded; a request handler runs        *)
(* without interruption from one `await` to the next, and other handlers   *)
(* run in between.  Each action below is one such uninterrupted segment:   *)
(* the awaited Deno KV operation taking effect together with the           *)
(* synchronous code that follows it, up to the next KV operation issued.   *)
(*                                                                         *)
(* JavaScript values: a query parameter is a sequence of one-character     *)
(* strings, <<>> when it is absent or empty (both are falsy and the code   *)
(* never tells them apart); a session token is a string, "" when absent;   *)
(* the result of parseInt is a set holding the number, {} for NaN; a       *)
(* missing KV record is Undefined.                                         *)
(*                                                                         *)
(* held is a history variable, read by no action: held[k] is the session   *)
(* whose acquire write of k was last answered true and that has since      *)
(* neither been answered true on a release write of k nor been destroyed,  *)
(* k not having been deleted since; "" when there is none.  destroyed is   *)
(* another: the sessions whose destroy has been answered true.  So is the  *)
(* field index0 of a renew or destroy in flight: the global index when     *)
(* the request arrived.                                                    *)
(***************************************************************************)
EXTENDS Integers, Sequences, FiniteSets, TLC

\* ------------------------------------------------------------- bounds
MaxIndex == 5
MaxTime == 2

Procs == {"p1", "p2"}
KeyOrder == <<"a", "b">>
Keys == {KeyOrder[i] : i \in 1..Len(KeyOrder)}
SessionIds == {"s1", "s2"}
Tokens == SessionIds \cup {""}
BehaviorInputs == {"Delete", "delete", "Release", "release"}
TtlInputs == {<<"1", "s">>}
Body1 == [value |-> "v1", flags |-> <<>>]
Body2 == [value |-> "v2", flags |-> <<"7">>]
Bodies == {Body1, Body2}
WaitInputs == {<<>>, <<"1">>}

VARIABLES consulIndex, sessions, kvs, now, uuids, req, held, destroyed

vars == <<consulIndex, sessions, kvs, now, uuids, req, held, destroyed>>

\* ------------------------------------------------------ pure functions
Undefined == [undefined |-> TRUE]

DigitChars == <<"0", "1", "2", "3", "4", "5", "6", "7", "8", "9">>

IsDigit(c) == \E i \in 1..Len(DigitChars) : DigitChars[i] = c

DigitVal(c) == (CHOOSE i \in 1..Len(DigitChars) : DigitChars[i] = c) - 1

\* The decimal text of a one-digit number, as a client writes it in a query.
Str(n) == <<DigitChars[n + 1]>>

RECURSIVE DigitPrefix(_, _)
DigitPrefix(s, acc) ==
  IF s = <<>> \/ ~IsDigit(Head(s)) THEN acc
  ELSE DigitPrefix(Tail(s), acc * 10 + DigitVal(Head(s)))

\* parseInt: the number its leading digits spell, NaN ({}) when there are none.
ParseInt(s) == IF s = <<>> \/ ~IsDigit(Head(s)) THEN {} ELSE {DigitPrefix(s, 0)}

\* String.prototype.toLowerCase on the behaviors a client sends.
ToLowerCase(b) ==
  CASE b = "Delete" -> "delete"
    [] b = "Release" -> "release"
    [] OTHER -> b

\* The increment lost: the index stays where it was.
NextIndexStuck(i) == i

\* ++consulIndex
NextIndex(i) == i + 1

\* setTimeout's delay: NaN counts as 0.
Delay(w) == IF ParseInt(w) = {} THEN 0 ELSE CHOOSE n \in ParseInt(w) : TRUE

\* JSON answers: c.json(true), c.json([...]), c.json({ID}), an HTTPException.
JBool(b) == [bool |-> b]

JList(l) == [list |-> l]

JId(id) == [ID |-> id]

JError(m) == [message |-> m]

Idle == [pc |-> "idle"]

Free(p) == req[p].pc \in {"idle", "done"}

\* The response is sent; the handler's locals are gone.
Respond(p, r, status, body) ==
  req' = [req EXCEPT ![p] = [pc |-> "done", op |-> r.op, status |-> status, body |-> body]]

Goto(p, r, pc) == req' = [req EXCEPT ![p] = [r EXCEPT !.pc = pc]]

\* ---------------------------------------------------------------- Init
Init ==
  /\ consulIndex = 1
  /\ sessions = [s \in SessionIds |-> Undefined]
  /\ kvs = [k \in Keys |-> Undefined]
  /\ now = 0
  /\ uuids = {}
  /\ req = [p \in Procs |-> Idle]
  /\ held = [k \in Keys |-> ""]
  /\ destroyed = {}

\* The process is started again: the module is loaded anew (line 25) and the
\* handlers in flight are gone, while Deno.openKv() (line 24) opens the same
\* persistent store, with the sessions and records the earlier run left.
Restart ==
  /\ consulIndex' = 1
  /\ req' = [p \in Procs |-> Idle]
  /\ UNCHANGED <<sessions, kvs, now, uuids, held, destroyed>>

\* Time passes.
Tick ==
  /\ now < MaxTime
  /\ now' = now + 1
  /\ UNCHANGED <<consulIndex, sessions, kvs, uuids, req, held, destroyed>>

\* ------------------------------------------------------ session create
CreateStart(p, name, behavior, ttl) ==
  /\ Free(p)
  /\ consulIndex < MaxIndex
  /\ \E sessionId \in SessionIds \ uuids :
       /\ uuids' = uuids \cup {sessionId}
       /\ consulIndex' = NextIndex(consulIndex)
       /\ req' = [req EXCEPT ![p] =
            [pc |-> "store", op |-> "create", sessionId |-> sessionId,
             session |-> [id |-> sessionId, name |-> name,
                          behavior |-> ToLowerCase(behavior), ttl |-> ParseInt(ttl),
                          createIndex |-> consulIndex', lastRenewTime |-> now]]]
  /\ UNCHANGED <<sessions, kvs, now, held, destroyed>>

CreateStore(p) ==
  /\ req[p].pc = "store" /\ req[p].op = "create"
  /\ sessions' = [sessions EXCEPT ![req[p].sessionId] = req[p].session]
  /\ Respond(p, req[p], 200, JId(req[p].sessionId))
  /\ UNCHANGED <<consulIndex, kvs, now, uuids, held, destroyed>>

\* ------------------------------------------------------- session renew
\* The request arrives and its kv.get of the session is answered.
RenewStart(p, sessionId) ==
  /\ Free(p)
  /\ LET r == [pc |-> "get", op |-> "renew", sessionId |-> sessionId,
               session |-> Undefined, index0 |-> consulIndex]
         sessionRes == sessions[sessionId]
     IN IF sessionRes = Undefined
        THEN Respond(p, r, 404, JError("Session not found"))
        ELSE Goto(p, [r EXCEPT !.session =
                        [sessionRes EXCEPT !.lastRenewTime = now]], "store")
  /\ UNCHANGED <<consulIndex, sessions, kvs, now, uuids, held, destroyed>>

RenewStore(p) ==
  /\ req[p].pc = "store" /\ req[p].op = "renew"
  /\ sessions' = [sessions EXCEPT ![req[p].sessionId] = req[p].session]
  /\ Respond(p, req[p], 200, JList(<<req[p].session>>))
  /\ UNCHANGED <<consulIndex, kvs, now, uuids, held, destroyed>>

\* ----------------------------------------------------- session destroy
\* kv.list({prefix}): the stored records whose key strictly extends the prefix,
\* in key order; they are read as one batch.  A record of key k is stored
\* under the two-part key <<"kv", k>>.
IsPrefixOf(prefix, key) ==
  Len(key) > Len(prefix) /\ SubSeq(key, 1, Len(prefix)) = prefix

RECURSIVE List(_, _, _)
List(store, prefix, i) ==
  IF i > Len(KeyOrder) THEN <<>>
  ELSE (IF store[KeyOrder[i]] # Undefined /\ IsPrefixOf(prefix, <<"kv", KeyOrder[i]>>)
        THEN <<[key |-> KeyOrder[i], value |-> store[KeyOrder[i]]]>>
        ELSE <<>>)
       \o List(store, prefix, i + 1)

\* The sessions whose destroy has been answered true, once handler p's step
\* of a destroy is taken.
Answered(p, d) == IF req'[p].pc = "done" THEN d \cup {req[p].sessionId} ELSE d

\* The loop over the listed entries, up to its next kv.delete or its end.
DestroyLoop(p, r, entries) ==
  LET locked == SelectSeq(entries, LAMBDA e : e.value.session = r.sessionId)
  IN IF locked = <<>>
     THEN Respond(p, [r EXCEPT !.iter = <<>>], 200, JBool(TRUE))
     ELSE Goto(p, [r EXCEPT !.iter = locked], "delkv")

DestroyStart(p, sessionId) ==
  /\ Free(p)
  /\ LET r == [pc |-> "get", op |-> "destroy", sessionId |-> sessionId,
               session |-> Undefined, iter |-> <<>>, index0 |-> consulIndex]
         sessionRes == sessions[sessionId]
     IN IF sessionRes = Undefined
        THEN Respond(p, r, 404, JError("Session not found"))
        ELSE Goto(p, [r EXCEPT !.session = sessionRes], "delsession")
  /\ UNCHANGED <<consulIndex, sessions, kvs, now, uuids, held, destroyed>>

DestroyDelSession(p) ==
  /\ req[p].pc = "delsession"
  /\ sessions' = [sessions EXCEPT ![req[p].sessionId] = Undefined]
  /\ IF req[p].session.behavior = "delete"
     THEN Goto(p, req[p], "list")
     ELSE Respond(p, req[p], 200, JBool(TRUE))
  /\ held' = [k \in Keys |-> IF held[k] = req[p].sessionId THEN "" ELSE held[k]]
  /\ destroyed' = Answered(p, destroyed)
  /\ UNCHANGED <<consulIndex, kvs, now, uuids>>

DestroyList(p) ==
  /\ req[p].pc = "list"
  /\ DestroyLoop(p, req[p], List(kvs, <<"kv">>, 1))
  /\ destroyed' = Answered(p, destroyed)
  /\ UNCHANGED <<consulIndex, sessions, kvs, now, uuids, held>>

DestroyDelKv(p) ==
  /\ req[p].pc = "delkv"
  /\ kvs' = [kvs EXCEPT ![Head(req[p].iter).key] = Undefined]
  /\ DestroyLoop(p, req[p], Tail(req[p].iter))
  /\ held' = [held EXCEPT ![Head(req[p].iter).key] = ""]
  /\ destroyed' = Answered(p, destroyed)
  /\ UNCHANGED <<consulIndex, sessions, now, uuids>>

\* -------------------------------------------------------------- kv put
\* Lines 183-193: the record is built with a fresh index and kv.set is issued.
PutBuild(p, r) ==
  /\ consulIndex < MaxIndex
  /\ consulIndex' = NextIndex(consulIndex)
  /\ Goto(p, [r EXCEPT !.kvPair =
                [createIndex |-> consulIndex', modifyIndex |-> consulIndex',
                 lockIndex |-> 0, flags |-> IF r.flags = <<>> THEN {0} ELSE ParseInt(r.flags),
                 key |-> r.key, value |-> r.value, session |-> r.sessionId]], "store")

\* The index taken before the CAS check, so that a failed check has spent one.
PutCasIndexFirst(p, r) ==
  LET existing == kvs[r.key]
      modifyIndex == IF existing = Undefined THEN {} ELSE {existing.modifyIndex}
  IN IF modifyIndex = {} \/ modifyIndex # ParseInt(r.cas)
     THEN /\ consulIndex < MaxIndex
          /\ consulIndex' = NextIndex(consulIndex)
          /\ Respond(p, r, 200, JBool(FALSE))
     ELSE PutBuild(p, r)

\* Lines 176-181: the CAS check, when cas is given.
PutCas(p, r) ==
  LET existing == kvs[r.key]
      modifyIndex == IF existing = Undefined THEN {} ELSE {existing.modifyIndex}
  IN IF modifyIndex = {} \/ modifyIndex # ParseInt(r.cas)
     THEN Respond(p, r, 200, JBool(FALSE)) /\ UNCHANGED consulIndex
     ELSE PutBuild(p, r)

\* Lines 169-172 and what follows the lock check.
PutLock(p, r) ==
  LET existing == kvs[r.key]
  IN IF existing # Undefined /\ existing.session # "" /\ existing.session # r.sessionId
     THEN Respond(p, r, 200, JBool(FALSE)) /\ UNCHANGED consulIndex
     ELSE IF r.cas # <<>>
          THEN Goto(p, r, "cas") /\ UNCHANGED consulIndex
          ELSE PutBuild(p, r)

\* Lines 164-167: the session named by the token is looked up.
PutSession(p, r) ==
  IF sessions[r.sessionId] = Undefined
  THEN Respond(p, r, 400, JError("Invalid session"))
  ELSE Goto(p, r, "lock")

\* The request arrives, its body is read, and the first KV read it issues
\* (if any) is answered.
PutStart(p, key, acquire, release, flags, cas, value) ==
  /\ Free(p)
  /\ LET r == [pc |-> "text", op |-> "put", key |-> key, acquire |-> acquire,
               release |-> release, flags |-> flags, cas |-> cas, value |-> value,
               sessionId |-> IF acquire # "" THEN acquire ELSE release,
               kvPair |-> Undefined]
     IN IF r.sessionId # ""
        THEN PutSession(p, r) /\ UNCHANGED consulIndex
        ELSE IF cas # <<>> THEN PutCas(p, r) ELSE PutBuild(p, r)
  /\ UNCHANGED <<sessions, kvs, now, uuids, held, destroyed>>

PutLockStep(p) ==
  /\ req[p].pc = "lock"
  /\ PutLock(p, req[p])
  /\ UNCHANGED <<sessions, kvs, now, uuids, held, destroyed>>

PutCasStep(p) ==
  /\ req[p].pc = "cas"
  /\ PutCas(p, req[p])
  /\ UNCHANGED <<sessions, kvs, now, uuids, held, destroyed>>

PutStore(p) ==
  /\ req[p].pc = "store" /\ req[p].op = "put"
  /\ kvs' = [kvs EXCEPT ![req[p].key] = req[p].kvPair]
  /\ Respond(p, req[p], 200, JBool(TRUE))
  /\ held' = [held EXCEPT ![req[p].key] =
       IF req[p].acquire # "" THEN req[p].acquire
       ELSE IF req[p].release # "" /\ req[p].release = @ THEN "" ELSE @]
  /\ UNCHANGED <<consulIndex, sessions, now, uuids, destroyed>>

\* ----------------------------------------------------------- kv delete
\* A delete that takes an index whether or not the key is stored.
DeleteKeyIndexed(p, key) ==
  /\ Free(p)
  /\ consulIndex < MaxIndex
  /\ consulIndex' = NextIndex(consulIndex)
  /\ kvs' = [kvs EXCEPT ![key] = Undefined]
  /\ req' = [req EXCEPT ![p] =
       [pc |-> "done", op |-> "delete", status |-> 200, body |-> JBool(TRUE)]]
  /\ held' = [held EXCEPT ![key] = ""]
  /\ UNCHANGED <<sessions, now, uuids, destroyed>>

DeleteKey(p, key) ==
  /\ Free(p)
  /\ kvs' = [kvs EXCEPT ![key] = Undefined]
  /\ req' = [req EXCEPT ![p] =
       [pc |-> "done", op |-> "delete", status |-> 200, body |-> JBool(TRUE)]]
  /\ held' = [held EXCEPT ![key] = ""]
  /\ UNCHANGED <<consulIndex, sessions, now, uuids, destroyed>>

\* -------------------------------------------------------------- kv get
\* A read's answer carries the X-Consul-Index header, except on the blocking path.
RespondWithIndex(p, r, status, body) ==
  req' = [req EXCEPT ![p] = [pc |-> "done", op |-> r.op, status |-> status,
                             body |-> body, header |-> consulIndex]]

\* The entries of a listing, without their keys.
Values(entries) == [i \in 1..Len(entries) |-> entries[i].value]

GetStart(p, key, recurse, index, wait, stale) ==
  /\ Free(p)
  /\ LET r == [pc |-> "get", op |-> "get", key |-> key, recurse |-> recurse,
               index |-> index, wait |-> wait, stale |-> stale, value |-> Undefined,
               deadline |-> 0]
         results == Values(List(kvs, <<"kv", key>>, 1))
         value == kvs[key]
     IN IF recurse
        THEN IF results = <<>>
             THEN Respond(p, r, 404, JList(<<>>))
             ELSE RespondWithIndex(p, r, 200, JList(results))
        ELSE IF value = Undefined
        THEN Respond(p, r, 404, JList(<<>>))
        ELSE IF index # <<>> /\ ParseInt(index) = {value.modifyIndex} /\ ~stale
        THEN IF wait # <<>>
             THEN Goto(p, [r EXCEPT !.value = value, !.deadline = now + Delay(wait)],
                       "wait")
             ELSE Respond(p, r, 200, JList(<<value>>))
        ELSE RespondWithIndex(p, r, 200, JList(<<value>>))
  /\ UNCHANGED <<consulIndex, sessions, kvs, now, uuids, held, destroyed>>

\* The timer's promise not awaited: the handler goes on at once.
TimerNotAwaited(r) == TRUE

\* Whether setTimeout's timer is due.
TimerFired(r) == now >= r.deadline

\* The timer of line 145 fires and the entry read before the wait is answered.
GetWake(p) ==
  /\ req[p].pc = "wait"
  /\ TimerFired(req[p])
  /\ Respond(p, req[p], 200, JList(<<req[p].value>>))
  /\ UNCHANGED <<consulIndex, sessions, kvs, now, uuids, held, destroyed>>

\* ---------------------------------------------------------------- Next
\* The requests clients send: a put's query and body, a get's query.
PutInput(key, acquire, release, cas, b) ==
  [key |-> key, acquire |-> acquire, release |-> release, cas |-> cas,
   flags |-> b.flags, value |-> b.value]

CasInputs == {<<>>} \cup {Str(n) : n \in 0..MaxIndex}

PlainPuts(keys, bodies) == {PutInput(k, "", "", <<>>, b) : k \in keys, b \in bodies}

CasPuts(keys, bodies) ==
  {PutInput(k, "", "", Str(n), b) : k \in keys, n \in 0..MaxIndex, b \in bodies}

AcquirePuts(keys) == {PutInput(k, s, "", <<>>, Body1) : k \in keys, s \in SessionIds}

ReleasePuts(keys) == {PutInput(k, "", s, <<>>, Body1) : k \in keys, s \in SessionIds}

\* Both tokens, or a token and cas, in one request.
MixedPuts(keys) ==
  {PutInput(k, "s1", "s2", <<>>, Body1) : k \in keys}
    \cup {PutInput(k, "s1", "", Str(n), Body1) : k \in keys, n \in 0..MaxIndex}

GetInput(key, recurse, index, wait, stale) ==
  [key |-> key, recurse |-> recurse, index |-> index, wait |-> wait, stale |-> stale]

\* Reads of one key, with every index, wait and stale; recursive reads.
Gets(keys) ==
  {GetInput(k, FALSE, i, w, st) :
     k \in keys, i \in CasInputs, w \in WaitInputs, st \in BOOLEAN}
    \cup {GetInput(k, TRUE, i, <<"1">>, FALSE) : k \in keys, i \in CasInputs}

Create == \E p \in Procs, b \in BehaviorInputs, t \in TtlInputs : CreateStart(p, "n", b, t)

Renew == \E p \in Procs, s \in SessionIds : RenewStart(p, s)

Destroy == \E p \in Procs, s \in SessionIds : DestroyStart(p, s)

Put(inputs) ==
  \E p \in Procs, i \in inputs :
    PutStart(p, i.key, i.acquire, i.release, i.flags, i.cas, i.value)

Delete(keys) == \E p \in Procs, k \in keys : DeleteKey(p, k)

Get(inputs) ==
  \E p \in Procs, i \in inputs : GetStart(p, i.key, i.recurse, i.index, i.wait, i.stale)

\* Every request, every handler, and the process starting again.
Next ==
  \/ Tick
  \/ Restart
  \/ Create
  \/ Renew
  \/ Destroy
  \/ Put(PlainPuts(Keys, Bodies) \cup CasPuts(Keys, Bodies) \cup AcquirePuts(Keys)
           \cup ReleasePuts(Keys) \cup MixedPuts(Keys))
  \/ Delete(Keys)
  \/ Get(Gets(Keys))
  \/ \E p \in Procs : CreateStore(p)
  \/ \E p \in Procs : RenewStore(p)
  \/ \E p \in Procs : DestroyDelSession(p)
  \/ \E p \in Procs : DestroyList(p)
  \/ \E p \in Procs : DestroyDelKv(p)
  \/ \E p \in Procs : PutLockStep(p)
  \/ \E p \in Procs : PutCasStep(p)
  \/ \E p \in Procs : PutStore(p)
  \/ \E p \in Procs : GetWake(p)

Spec == Init /\ [][Next]_vars

\* Plain and CAS writes and deletes of one key.
NextCas ==
  \/ Put(PlainPuts({"a"}, Bodies) \cup CasPuts({"a"}, Bodies))
  \/ Delete({"a"})
  \/ \E p \in Procs : PutStore(p)

SpecCas == Init /\ [][NextCas]_vars

\* Sessions and the writes that take and give back the lock of one key.
NextLock ==
  \/ Create
  \/ Destroy
  \/ Put(PlainPuts({"a"}, {Body2}) \cup AcquirePuts({"a"}) \cup ReleasePuts({"a"}))
  \/ Delete({"a"})
  \/ \E p \in Procs : CreateStore(p)
  \/ \E p \in Procs : DestroyDelSession(p)
  \/ \E p \in Procs : DestroyList(p)
  \/ \E p \in Procs : DestroyDelKv(p)
  \/ \E p \in Procs : PutLockStep(p)
  \/ \E p \in Procs : PutStore(p)

SpecLock == Init /\ [][NextLock]_vars

\* Sessions that lock several keys and are destroyed.
NextCascade ==
  \/ Create
  \/ Destroy
  \/ Put(AcquirePuts(Keys))
  \/ \E p \in Procs : CreateStore(p)
  \/ \E p \in Procs : DestroyDelSession(p)
  \/ \E p \in Procs : DestroyList(p)
  \/ \E p \in Procs : DestroyDelKv(p)
  \/ \E p \in Procs : PutLockStep(p)
  \/ \E p \in Procs : PutStore(p)

SpecCascade == Init /\ [][NextCascade]_vars

\* Reads of one key, blocking or not, against writes and deletes of it.
NextWait ==
  \/ Tick
  \/ Put(PlainPuts({"a"}, {Body1}))
  \/ Delete({"a"})
  \/ Get(Gets({"a"}))
  \/ \E p \in Procs : PutStore(p)
  \/ \E p \in Procs : GetWake(p)

SpecWait == Init /\ [][NextWait]_vars

\* Every request that takes an index: session creates and writes of one key.
NextIndexed ==
  \/ Create
  \/ Put(PlainPuts({"a"}, {Body1}) \cup CasPuts({"a"}, {Body1}) \cup AcquirePuts({"a"})
           \cup MixedPuts({"a"}))
  \/ \E p \in Procs : CreateStore(p)
  \/ \E p \in Procs : PutLockStep(p)
  \/ \E p \in Procs : PutCasStep(p)
  \/ \E p \in Procs : PutStore(p)

SpecIndexed == Init /\ [][NextIndexed]_vars

\* The life of sessions, renewals included, beside writes and deletes of one key.
NextSession ==
  \/ Create
  \/ Renew
  \/ Destroy
  \/ Put(PlainPuts({"a"}, {Body1}))
  \/ Delete({"a"})
  \/ \E p \in Procs : CreateStore(p)
  \/ \E p \in Procs : RenewStore(p)
  \/ \E p \in Procs : DestroyDelSession(p)
  \/ \E p \in Procs : DestroyList(p)
  \/ \E p \in Procs : PutStore(p)

SpecSession == Init /\ [][NextSession]_vars

\* Sessions growing old: time, renewals, and writes that take a lock.
NextExpiry ==
  \/ Tick
  \/ Create
  \/ Renew
  \/ Put(AcquirePuts({"a"}))
  \/ \E p \in Procs : CreateStore(p)
  \/ \E p \in Procs : RenewStore(p)
  \/ \E p \in Procs : PutLockStep(p)
  \/ \E p \in Procs : PutStore(p)

SpecExpiry == Init /\ [][NextExpiry]_vars

\* Session creates beside writes and deletes of every key, over restarts of
\* the process.
NextBounds ==
  \/ Restart
  \/ Create
  \/ Put(PlainPuts(Keys, {Body1}))
  \/ Delete(Keys)
  \/ \E p \in Procs : CreateStore(p)
  \/ \E p \in Procs : PutStore(p)

SpecBounds == Init /\ [][NextBounds]_vars

\* Writes of one key that can fail: on cas, on a lock, on an unknown session.
NextFailing ==
  \/ Create
  \/ Put(CasPuts({"a"}, {Body1}) \cup AcquirePuts({"a"}))
  \/ \E p \in Procs : CreateStore(p)
  \/ \E p \in Procs : PutLockStep(p)
  \/ \E p \in Procs : PutStore(p)

SpecFailing == Init /\ [][NextFailing]_vars

\* ============================================================== claims
\* The lock holder of a stored record, "" when it has none or is missing.
Holder(e) == IF e = Undefined THEN "" ELSE e.session

\* Handler p's pending kv.set of a put to key k takes effect in this step, and
\* the put is answered true.
StoreBy(p, k) ==
  /\ req[p].pc = "store" /\ req[p].op = "put" /\ req[p].key = k
  /\ req'[p].pc = "done"

ReleasePut(r) == r.op = "put" /\ r.acquire = "" /\ r.release # ""

\* ------------------------------------------------------------------ C1
CasHolds(k, x) ==
  \/ kvs[k] # Undefined /\ kvs[k].modifyIndex = x
  \/ kvs[k] = Undefined /\ x = 0

\* C1: a put with cas = X and no lock token passes its check (and is then
\* answered true) if and only if the key exists with modifyIndex = X, or is
\* absent and X = 0; and the index it writes differs from X.
C1_CasCorrect ==
  [][\A p \in Procs, k \in Keys, x \in 0..MaxIndex, b \in Bodies :
       PutStart(p, k, "", "", b.flags, Str(x), b.value)
         => /\ (req'[p].pc = "store") <=> CasHolds(k, x)
            /\ req'[p].pc = "store" => req'[p].kvPair.modifyIndex # x]_vars

\* ------------------------------------------------------------------ C2
\* A put that has passed its checks and whose kv.set is pending.
Passed(p, k) == req[p].pc = "store" /\ req[p].op = "put" /\ req[p].key = k

\* C2: no two puts to one key are both past their checks (each is then
\* answered true) when they carry the same cas, or acquire tokens of
\* different sessions.
C2_PutAtomic ==
  \A p, q \in Procs, k \in Keys :
    (p # q /\ Passed(p, k) /\ Passed(q, k))
      => /\ ~(req[p].cas # <<>> /\ req[p].cas = req[q].cas)
         /\ ~(req[p].acquire # "" /\ req[q].acquire # ""
                /\ req[p].acquire # req[q].acquire)

\* ------------------------------------------------------------------ C3
\* C3: while session A holds the lock of K (it acquired K and has neither
\* released K nor been destroyed, and K was not deleted), no put to K with
\* acquire = B, for another existing session B, is answered true.
C3_LockExclusive ==
  [][\A p \in Procs, k \in Keys :
       (StoreBy(p, k) /\ req[p].acquire # "" /\ held[k] # ""
          /\ held[k] # req[p].acquire /\ sessions[req[p].acquire] # Undefined)
         => req'[p].body = JBool(FALSE)]_vars

\* ------------------------------------------------------------------ C4
\* C4: when destroy(S) is answered true, no stored record has S as its lock
\* holder: the records S held are gone (Delete) or unlocked (Release).
C4_Cascade ==
  [][\A p \in Procs :
       (req[p].pc \in {"delsession", "list", "delkv"} /\ req'[p].pc = "done"
          /\ req'[p].status = 200)
         => \A k \in Keys : Holder(kvs'[k]) # req[p].sessionId]_vars

\* ------------------------------------------------------------------ C5
\* C5: a put with release = S is answered false and changes nothing unless
\* the record's lock holder is S; when it is, the put is answered true and
\* the record it stores has no lock holder.
C5_ReleaseProtocol ==
  [][\A p \in Procs :
       /\ (req[p].pc = "lock" /\ ReleasePut(req[p]) /\ req'[p] # req[p])
            => IF Holder(kvs[req[p].key]) = req[p].release
               THEN req'[p].pc = "store"
               ELSE /\ req'[p].pc = "done" /\ req'[p].body = JBool(FALSE)
                    /\ UNCHANGED <<kvs, sessions, consulIndex>>
       /\ (req[p].pc = "store" /\ ReleasePut(req[p]) /\ req'[p].pc = "done")
            => req'[p].body = JBool(TRUE) /\ Holder(kvs'[req[p].key]) = ""]_vars

\* ------------------------------------------------------------------ C6
\* A step of the handler destroying session s.
DestroyStepOf(s) ==
  \E p \in Procs :
    /\ req[p].pc \in {"delsession", "list", "delkv"}
    /\ req[p].sessionId = s
    /\ req'[p] # req[p]

\* C6: a record's lock holder goes from none to a session only by a put with
\* that acquire token answered true, from a session to none only by a put
\* with that release token answered true or by the session's destruction,
\* and a put with neither token leaves it as it was.
C6_LockDiscipline ==
  [][\A k \in Keys :
       LET h == Holder(kvs[k])
           h2 == Holder(kvs'[k])
       IN /\ (h = "" /\ h2 # "")
               => \E p \in Procs : StoreBy(p, k) /\ req[p].acquire = h2
          /\ (h # "" /\ h2 = "" /\ kvs'[k] # Undefined)
               => \/ \E p \in Procs :
                       StoreBy(p, k) /\ ReleasePut(req[p]) /\ req[p].release = h
                  \/ DestroyStepOf(h)
          /\ \A p \in Procs :
               (StoreBy(p, k) /\ req[p].acquire = "" /\ req[p].release = "")
                 => h2 = h]_vars

\* ------------------------------------------------------------------ C7
\* The index a handler holds between taking it and storing its record.
Handed(r) ==
  IF r.pc = "store" /\ r.op = "create" THEN {r.session.createIndex}
  ELSE IF r.pc = "store" /\ r.op = "put" THEN {r.kvPair.modifyIndex}
  ELSE {}

\* Every index handed out and still held or stored.
Issued ==
  UNION {Handed(req[p]) : p \in Procs}
    \cup {sessions[s].createIndex : s \in {t \in SessionIds : sessions[t] # Undefined}}
    \cup {kvs[k].modifyIndex : k \in {j \in Keys : kvs[j] # Undefined}}

\* C7: the global index never decreases, and each index handed to a session
\* create or a put is the new global index, above the old one and above every
\* index handed out before.
C7_IndexMonotonic ==
  [][/\ consulIndex' >= consulIndex
     /\ \A v \in Issued : v <= consulIndex
     /\ \A p \in Procs :
          (req'[p] # req[p] /\ Handed(req'[p]) # {})
            => /\ Handed(req'[p]) = {consulIndex'}
               /\ consulIndex' > consulIndex]_vars

\* A put and a session create both hold an index, with a record already stored.
C7_Witness ==
  \E p, q \in Procs :
    /\ req[p].pc = "store" /\ req[p].op = "put"
    /\ req[q].pc = "store" /\ req[q].op = "create"
    /\ Handed(req[p]) # Handed(req[q])
    /\ \E k \in Keys : kvs[k] # Undefined

\* ------------------------------------------------------------------ C8
\* A write since the read: the stored record's index is not the one read.
Written(r) == kvs[r.key] # Undefined /\ kvs[r.key].modifyIndex # r.value.modifyIndex

\* The blocking reads of key k: a wait, and an index that parses to the
\* stored record's modifyIndex.
BlockingGets(k, recurse, stale) ==
  IF kvs[k] = Undefined THEN {}
  ELSE {GetInput(k, recurse, x, w, stale) :
          x \in {j \in CasInputs : ParseInt(j) = {kvs[k].modifyIndex}},
          w \in WaitInputs \ {<<>>}}

\* The answer to a waiting get comes at its deadline or after a write.
WakeOnTime ==
  \A p \in Procs :
    (req[p].pc = "wait" /\ req'[p].pc = "done")
      => now >= req[p].deadline \/ Written(req[p])

\* Handler p answers a get in the step in which the get arrives.
AnsweredAtOnce(p) ==
  Free(p) /\ req'[p] # req[p] /\ req'[p].pc = "done" /\ req'[p].op = "get"

\* C8, as amended: a blocking read of one key that is neither stale nor
\* recursive is not answered before its deadline or a write to the key.
C8_BlockingWake ==
  [][/\ \A p \in Procs :
          AnsweredAtOnce(p)
            => \A k \in Keys : \A i \in BlockingGets(k, FALSE, FALSE) :
                 GetStart(p, i.key, i.recurse, i.index, i.wait, i.stale)
                   => Delay(i.wait) = 0
     /\ WakeOnTime]_vars

\* C8, as claimed: every blocking read.
C8_BlockingWakeAny ==
  [][/\ \A p \in Procs :
          AnsweredAtOnce(p)
            => \A k \in Keys, rc \in BOOLEAN, st \in BOOLEAN :
                 \A i \in BlockingGets(k, rc, st) :
                   GetStart(p, i.key, i.recurse, i.index, i.wait, i.stale)
                     => Delay(i.wait) = 0
     /\ WakeOnTime]_vars

\* A read has waited to its deadline with the record unchanged.
C8_Witness ==
  \E p \in Procs :
    /\ req[p].pc = "wait" /\ ~req[p].stale
    /\ Delay(req[p].wait) > 0 /\ now >= req[p].deadline
    /\ kvs[req[p].key] = req[p].value

\* ------------------------------------------------------------------ C9
\* C9: a put that stores a new modifyIndex for a key answers, in the same
\* step, every read waiting on the key before its deadline, with the record
\* just written.
C9_WriteWakes ==
  [][\A p, q \in Procs :
       (StoreBy(q, req[q].key) /\ req[p].pc = "wait" /\ req[p].key = req[q].key
          /\ req[q].kvPair.modifyIndex # req[p].value.modifyIndex
          /\ now < req[p].deadline)
         => req'[p].pc = "done" /\ req'[p].body = JList(<<kvs'[req[p].key]>>)]_vars

\* ----------------------------------------------------------------- C10
\* C10: a blocking read of a missing key is not answered at once.
C10_MissingKeyWaits ==
  [][\A p \in Procs :
       AnsweredAtOnce(p)
         => \A k \in {j \in Keys : kvs[j] = Undefined} :
              \A x \in CasInputs \ {<<>>}, w \in {v \in WaitInputs : Delay(v) > 0} :
                ~GetStart(p, k, FALSE, x, w, FALSE)]_vars

\* ----------------------------------------------------------------- C11
\* Handler p is destroying a session whose behavior is delete.
DestroyingDelete(p) ==
  /\ req[p].pc \in {"delsession", "list", "delkv"}
  /\ req[p].session.behavior = "delete"

\* C11: from the start of destroy(S) of a Delete session to its end, S is
\* never absent while a record held by S is stored, and no record held by S
\* is removed while S stays present.
C11_CascadeAtomic ==
  [][\A p \in Procs :
       DestroyingDelete(p)
         => LET S == req[p].sessionId
            IN /\ sessions'[S] = Undefined
                    => \A k \in Keys : Holder(kvs'[k]) # S
               /\ (\E k \in Keys : Holder(kvs[k]) = S /\ kvs'[k] = Undefined)
                    => sessions'[S] = Undefined]_vars

\* ----------------------------------------------------------------- C12
\* Handler p answers a renew of session s in this step.
RenewAnswered(p, s) ==
  \/ RenewStart(p, s) /\ req'[p].pc = "done"
  \/ /\ req[p].pc = "store" /\ req[p].op = "renew" /\ req[p].sessionId = s
     /\ req'[p].pc = "done"

\* C12: once destroy(S) has been answered true, S is never again stored and
\* every renew(S) answered from then on fails with 404; a renew that fails
\* leaves sessions, records and the global index as they were.
C12_DestroyedStays ==
  [][\A s \in SessionIds :
       /\ s \in destroyed' => sessions'[s] = Undefined
       /\ \A p \in Procs :
            RenewAnswered(p, s)
              => /\ s \in destroyed => req'[p].status = 404
                 /\ req'[p].status = 404 => UNCHANGED <<sessions, kvs, consulIndex>>]_vars

\* ----------------------------------------------------------------- C13
\* Session s is stored and the time is past its lastRenewTime + ttl.
Expired(s) ==
  /\ sessions[s] # Undefined
  /\ \E t \in sessions[s].ttl : now > sessions[s].lastRenewTime + t

\* C13: a renew of an expired session fails, a put with an expired session
\* as acquire token is rejected and takes no lock, and a renew of a session
\* not yet expired stores it with lastRenewTime = now and its ttl.
C13_SessionExpiry ==
  [][\A p \in Procs, s \in SessionIds :
       /\ (RenewStart(p, s) /\ Expired(s))
            => req'[p].pc = "done" /\ req'[p].status = 404
       /\ \A i \in AcquirePuts(Keys) :
            (i.acquire = s /\ Expired(s)
               /\ PutStart(p, i.key, i.acquire, i.release, i.flags, i.cas, i.value))
              => req'[p].pc = "done" /\ req'[p].status = 400
       /\ (RenewStart(p, s) /\ sessions[s] # Undefined /\ ~Expired(s))
            => /\ req'[p].pc = "store"
               /\ req'[p].session = [sessions[s] EXCEPT !.lastRenewTime = now]
       /\ (req[p].pc = "store" /\ req[p].op = "renew" /\ req[p].sessionId = s
              /\ req'[p].pc = "done")
            => sessions'[s] = req[p].session]_vars

\* ----------------------------------------------------------------- C14
\* Handler p takes a step of a put in this step.
PutStep(p) == req'[p] # req[p] /\ req'[p].op = "put"

\* C14: a put answered false or rejected with 400 has changed nothing: no
\* step of a put changes sessions, and none changes the records or the
\* global index except the step that takes the index and the store that
\* follows it, after which the put is answered true.
C14_FailedPutFrame ==
  [][\A p \in Procs :
       PutStep(p)
         => /\ UNCHANGED sessions
            /\ req'[p].pc # "store" /\ req[p].pc # "store"
                 => UNCHANGED <<kvs, consulIndex>>
            /\ req[p].pc = "store"
                 => req'[p].status = 200 /\ req'[p].body = JBool(TRUE)
            /\ (req'[p].pc = "done" /\ req'[p].body # JBool(TRUE))
                 => UNCHANGED <<kvs, sessions, consulIndex>>]_vars

\* One put has been answered false and another rejected, with a record
\* and a session stored.
C14_Witness ==
  /\ \E p \in Procs :
       req[p].pc = "done" /\ req[p].op = "put" /\ req[p].body = JBool(FALSE)
  /\ \E p \in Procs :
       req[p].pc = "done" /\ req[p].op = "put" /\ req[p].status = 400
  /\ \E k \in Keys : kvs[k] # Undefined
  /\ \E s \in SessionIds : sessions[s] # Undefined

\* ----------------------------------------------------------------- C15
\* C15: a delete of an absent key is answered true and changes neither the
\* global index, nor the records, nor the sessions; any delete leaves the
\* key absent and the rest as it was, so that deleting again changes nothing.
C15_IdempotentDelete ==
  [][\A p \in Procs, k \in Keys :
       DeleteKey(p, k)
         => /\ req'[p].status = 200 /\ req'[p].body = JBool(TRUE)
            /\ kvs' = [kvs EXCEPT ![k] = Undefined]
            /\ kvs' = [kvs' EXCEPT ![k] = Undefined]
            /\ UNCHANGED <<consulIndex, sessions>>
            /\ kvs[k] = Undefined => UNCHANGED kvs]_vars

\* Both handlers have answered a delete of the one key written once: one of
\* the two deletes found it absent.
C15_Witness ==
  /\ \A p \in Procs : req[p].pc = "done" /\ req[p].op = "delete"
  /\ consulIndex = 2
  /\ \A k \in Keys : kvs[k] = Undefined

\* ----------------------------------------------------------------- C16
\* C16: a put answered true on a key that is stored leaves the record's
\* createIndex as it was.
C16_CreateIndexStable ==
  [][\A p \in Procs, k \in Keys :
       (StoreBy(p, k) /\ kvs[k] # Undefined)
         => kvs'[k].createIndex = kvs[k].createIndex]_vars

\* ----------------------------------------------------------------- C17
\* C17: a put answered true on a key that is stored leaves the record with a
\* modifyIndex above the one it had.
C17_ModifyIndexAdvances ==
  [][\A p \in Procs, k \in Keys :
       (StoreBy(p, k) /\ kvs[k] # Undefined)
         => kvs'[k].modifyIndex > kvs[k].modifyIndex]_vars

\* ----------------------------------------------------------------- C18
\* Handler p answers a renew or a destroy with success in this step.
SessionOpDone(p) ==
  /\ req[p].pc \in {"store", "delsession", "list", "delkv"}
  /\ req[p].op \in {"renew", "destroy"}
  /\ req'[p].pc = "done" /\ req'[p].status = 200

\* C18: a session create and a put that passes its checks raise the global
\* index, a renew and a destroy answered with success find it above what it
\* was when they arrived, and a delete of a stored key raises it.
C18_FreshIndex ==
  [][\A p \in Procs :
       /\ (req'[p] # req[p] /\ req'[p].pc = "store" /\ req'[p].op \in {"create", "put"})
            => consulIndex' > consulIndex
       /\ SessionOpDone(p) => consulIndex' > req[p].index0
       /\ \A k \in Keys :
            (DeleteKey(p, k) /\ kvs[k] # Undefined) => consulIndex' > consulIndex]_vars

\* ----------------------------------------------------------------- C19
\* A destroy has read its session and not yet been answered.
DestroyInProgress == \E p \in Procs : req[p].pc \in {"delsession", "list", "delkv"}

\* C19: when no destroy is in progress, the lock holder of every stored
\* record is a stored session.
C19_NoDanglingLocks ==
  ~DestroyInProgress
    => \A k \in Keys :
         Holder(kvs[k]) # "" => sessions[Holder(kvs[k])] # Undefined

\* ----------------------------------------------------------------- C20
StoredKeys == {k \in Keys : kvs[k] # Undefined}

StoredSessions == {s \in SessionIds : sessions[s] # Undefined}

\* C20: every stored session and record has createIndex <= global index,
\* every stored record has createIndex <= modifyIndex <= global index, and
\* the records of two keys never have the same modifyIndex.
C20_IndexBounds ==
  /\ \A s \in StoredSessions : sessions[s].createIndex <= consulIndex
  /\ \A k \in StoredKeys :
       /\ kvs[k].createIndex <= consulIndex
       /\ kvs[k].createIndex <= kvs[k].modifyIndex
       /\ kvs[k].modifyIndex <= consulIndex
  /\ \A k, j \in StoredKeys : k # j => kvs[k].modifyIndex # kvs[j].modifyIndex
====
